---- MODULE Spec2Model ----
(***************************************************************************)
(* Model of the calendar-to-segment pipeline of time_management_panel:     *)
(* src/src/runner.py (parse_event, process_ics_to_csv, main) and the       *)
(* parts of src/src/app.py that launch the runner and load its output.     *)
(*                                                                         *)
(* Time.  An instant is a pair <<s, u>>: s whole seconds since 00:00 UTC   *)
(* of day 0 and u microseconds in 0..999999, the resolution of Python's    *)
(* datetime/timedelta.  Day 0 is 2019-12-30, so that the recurrence floor  *)
(* of runner.py line 99 (2020-01-01T00:00Z) is the start of day FloorDay.  *)
(* A duration is a pair of the same shape (s may be negative).             *)
(*                                                                         *)
(* Text.  A string is a tuple of one-character strings, so that strip,     *)
(* lower and split are computed and not assumed.                           *)
(***************************************************************************)
EXTENDS Integers, Sequences, FiniteSets, TLC

\* ------------------------------------------------------------------ bounds
\* Largest number of VEVENTs in one calendar document.
MaxEvents == 2
\* Explicit --start_date/--end_date values range over days 0..MaxDay.
MaxDay == 3
\* Largest number of Analyze clicks in one dashboard session.
MaxRuns == 2

\* --------------------------------------------------------------- constants
Micro == 1000000
DaySeconds == 86400
\* datetime(2020, 1, 1, tzinfo=pytz.utc), as a day number (day 0 = 2019-12-30)
FloorDay == 2
\* timedelta(days=730)
LookaheadDays == 730
DEFAULT_FOCUS_MINUTES == 90
\* df['duration_minutes'] > 0.1 : a tenth of a minute, in seconds
EpsilonSeconds == 6

NONE == "none"

\* -------------------------------------------------------------------- time
Norm(s, u) == <<s + (u \div Micro), u % Micro>>

At(day, hh, mm, ss) == <<day * DaySeconds + hh * 3600 + mm * 60 + ss, 0>>

TLt(a, b) == a[1] < b[1] \/ (a[1] = b[1] /\ a[2] < b[2])
TLe(a, b) == a = b \/ TLt(a, b)
TMin(a, b) == IF TLt(b, a) THEN b ELSE a
TMax(a, b) == IF TLt(a, b) THEN b ELSE a
TAdd(a, d) == Norm(a[1] + d[1], a[2] + d[2])
TSub(a, b) == Norm(a[1] - b[1], a[2] - b[2])

\* timedelta * (weight / 100.0) for the even weight 100.0 / n: the product is
\* rounded to whole microseconds, ties to even (CPython's _divide_and_round).
\* For n <= 5 the float (100.0/n)/100.0 is close enough to 1/n that this is
\* the exact result for every duration shorter than a few years.
\* For n = 6 and 7 it is the exact result for the durations used here (an
\* hour: 600 s and 514.285714 s).
Scale(d, n) ==
    LET qs == d[1] \div n
        rem == (d[1] % n) * Micro + d[2]
        q == rem \div n
        r == rem % n
        up == 2 * r > n \/ (2 * r = n /\ q % 2 = 1)
    IN  Norm(qs, IF up THEN q + 1 ELSE q)

\* -------------------------------------------------------------------- text
Upper == <<"A","B","C","D","E","F","G","H","I","J","K","L","M",
           "N","O","P","Q","R","S","T","U","V","W","X","Y","Z">>
LowerCase == <<"a","b","c","d","e","f","g","h","i","j","k","l","m",
           "n","o","p","q","r","s","t","u","v","w","x","y","z">>

LowerChar(c) ==
    IF \E i \in 1..26 : Upper[i] = c
    THEN LowerCase[CHOOSE i \in 1..26 : Upper[i] = c]
    ELSE c

\* str.lower()
Lower(s) == [i \in 1..Len(s) |-> LowerChar(s[i])]

IsSpace(c) == c \in {" ", "\t"}

\* str.strip()
Strip(s) ==
    LET keep == {i \in 1..Len(s) : ~IsSpace(s[i])}
    IN  IF keep = {} THEN <<>>
        ELSE LET lo == CHOOSE i \in keep : \A j \in keep : i <= j
                 hi == CHOOSE i \in keep : \A j \in keep : j <= i
             IN  SubSeq(s, lo, hi)

\* str.find(d) + 1: the first position where d occurs in s, 0 if none
Find(s, d) ==
    LET hits == {i \in 1..(Len(s) - Len(d) + 1) : SubSeq(s, i, i + Len(d) - 1) = d}
    IN  IF hits = {} THEN 0 ELSE CHOOSE i \in hits : \A j \in hits : i <= j

\* d in s
Contains(s, d) == Find(s, d) # 0

\* s.split(d, 1)
SplitFirst(s, d) ==
    LET i == Find(s, d)
    IN  IF i = 0 THEN <<s>>
        ELSE <<SubSeq(s, 1, i - 1), SubSeq(s, i + Len(d), Len(s))>>

\* s.split(d)
RECURSIVE SplitAll(_, _)
SplitAll(s, d) ==
    LET i == Find(s, d)
    IN  IF i = 0 THEN <<s>>
        ELSE <<SubSeq(s, 1, i - 1)>> \o SplitAll(SubSeq(s, i + Len(d), Len(s)), d)

NoSubcategory == <<"n","o"," ","s","u","b","c","a","t","e","g","o","r","y">>

\* A weight 100.0 / n is kept as its divisor n: [name, parts], weight = 100/parts.
parse_subcategories(subcategory_str, subcat_delimiter) ==
    LET toks == SplitAll(subcategory_str, subcat_delimiter)
        kept == SelectSeq(toks, LAMBDA t : Strip(t) # <<>>)
        sub_items == [i \in 1..Len(kept) |-> Lower(Strip(kept[i]))]
    IN  IF sub_items # <<>>
        THEN [i \in 1..Len(sub_items) |->
                 [name |-> sub_items[i], parts |-> Len(sub_items)]]
        ELSE << [name |-> NoSubcategory, parts |-> 1] >>

\* ---------------------------------------------------------- float weights
\* A weight is a Python float (IEEE double).  The doubles used here lie in
\* [8, 128), where every double is a whole number of 2^-49: a double is kept
\* as that number, written as three digits <<d2, d1, d0>> of base 2^24.
FloatBase == 16777216

\* 100.0 = 200 * 2^48 units
Hundred == <<200, 0, 0>>

FloatCarry(x) ==
    LET d0 == x[3] % FloatBase
        c0 == x[3] \div FloatBase
        d1 == (x[2] + c0) % FloatBase
        c1 == (x[2] + c0) \div FloatBase
    IN  <<x[1] + c1, d1, d0>>

\* The spacing of the doubles around x, in units: one unit in [8, 16)
\* (first digit 16..31), doubling with every power of two.
FloatUlp(x) ==
    IF x[1] >= 128 THEN 8
    ELSE IF x[1] >= 64 THEN 4
    ELSE IF x[1] >= 32 THEN 2
    ELSE 1

\* Round x + rn/rd units (0 <= rn < rd) to the nearest double, ties to even.
FloatRound(x, rn, rd) ==
    LET g == FloatUlp(x)
        low == x[3] % g
        down == <<x[1], x[2], x[3] - low>>
        up == FloatCarry(<<x[1], x[2], x[3] - low + g>>)
        twice == 2 * (low * rd + rn)
    IN  IF twice < g * rd THEN down
        ELSE IF twice > g * rd THEN up
        ELSE IF (x[3] \div g) % 2 = 0 THEN down ELSE up

\* line 33: 100.0 / num_subcategories (long division, then rounding)
even_split_weight(num_subcategories) ==
    LET n == num_subcategories
        d2 == Hundred[1] \div n
        r2 == Hundred[1] % n
        d1 == (r2 * FloatBase) \div n
        r1 == (r2 * FloatBase) % n
        d0 == (r1 * FloatBase) \div n
        r0 == (r1 * FloatBase) % n
    IN  FloatRound(<<d2, d1, d0>>, r0, n)

\* ------------------------------------------------------------ calendar data
\* A VEVENT as icalendar hands it over.  summary is the title, <<>> when the
\* property is missing or empty (None and "" take the same branch of line
\* 49).  dtstart/dtend are values [kind, day, t]: kind "none" when the
\* property is missing (event.get returns None), "date" for an all-day value
\* on day `day`, "datetime" for the instant t (naive or UTC: lines 62-65 read
\* a naive value as UTC).  rrule is [kind, ok, every, count]: kind "none"
\* without a rule, else `count` occurrences `every` days apart from DTSTART;
\* ok = FALSE is a rule whose evaluation raises.
DateTime(t) == [kind |-> "datetime", day |-> 0, t |-> t]
AllDay(d) == [kind |-> "date", day |-> d, t |-> <<0, 0>>]
Missing == [kind |-> "none", day |-> 0, t |-> <<0, 0>>]
Rule(ok, every, count) == [kind |-> "rrule", ok |-> ok, every |-> every, count |-> count]
NoRule == [kind |-> "none", ok |-> FALSE, every |-> 0, count |-> 0]

\* lines 52-65: a date-only value becomes midnight, a naive value is read as UTC
ToInstant(v) == IF v.kind = "date" THEN At(v.day, 0, 0, 0) ELSE v.t

\* rrule.between(datetime(2020, 1, 1, tzinfo=utc), now + 730 days): the rule's
\* occurrence starts strictly between the floor and the horizon, ascending.
RuleFloor == At(FloorDay, 0, 0, 0)
Horizon(now) == TAdd(now, <<LookaheadDays * DaySeconds, 0>>)

RECURSIVE RuleStarts(_, _, _)
RuleStarts(rule, start, k) ==
    IF k >= rule.count THEN <<>>
    ELSE <<TAdd(start, <<k * rule.every * DaySeconds, 0>>)>>
         \o RuleStarts(rule, start, k + 1)

between(rule, start, now) ==
    SelectSeq(RuleStarts(rule, start, 0),
              LAMBDA t : TLt(RuleFloor, t) /\ TLt(t, Horizon(now)))

\* One record of parse_event / one row of the frame before the feature columns.
Record(s, e, category, sub, summary) ==
    [start_datetime |-> s, end_datetime |-> e, category |-> category,
     subcategory_1 |-> sub, full_summary |-> summary]

\* create_split_records: back-to-back slices of one occurrence, one per
\* allocation, each lasting instance_duration * (weight / 100.0).
RECURSIVE create_split_records(_, _, _, _, _, _)
create_split_records(instance_start, instance_duration, allocations, i, category, summary) ==
    IF i > Len(allocations) THEN <<>>
    ELSE LET sub_end_time ==
                 TAdd(instance_start, Scale(instance_duration, allocations[i].parts))
         IN  <<Record(instance_start, sub_end_time, category,
                      allocations[i].name, summary)>>
             \o create_split_records(sub_end_time, instance_duration, allocations,
                                     i + 1, category, summary)

\* lines 67-73: category and subcategory text of a title
Category(summary, cat_delimiter) ==
    IF Contains(summary, cat_delimiter)
    THEN Lower(Strip(SplitFirst(summary, cat_delimiter)[1]))
    ELSE Lower(Strip(summary))

SubcategoryStr(summary, cat_delimiter) ==
    IF Contains(summary, cat_delimiter)
    THEN Strip(SplitFirst(summary, cat_delimiter)[2])
    ELSE <<>>

RECURSIVE Flatten(_)
Flatten(ss) == IF ss = <<>> THEN <<>> ELSE Head(ss) \o Flatten(Tail(ss))

\* parse_event: [raised, warned, records].  raised: an exception leaves the
\* function (None has no attribute dt, lines 46-47); warned: the rrule
\* warning of line 105 was printed.
parse_event(event, cat_delimiter, subcat_delimiter, now) ==
    IF event.dtstart.kind = "none" \/ event.dtend.kind = "none"
    THEN [raised |-> TRUE, warned |-> FALSE, records |-> <<>>]
    ELSE IF event.summary = <<>>
    THEN [raised |-> FALSE, warned |-> FALSE, records |-> <<>>]
    ELSE
      LET start_dt == ToInstant(event.dtstart)
          end_dt == ToInstant(event.dtend)
          category == Category(event.summary, cat_delimiter)
          allocations == parse_subcategories(
                             SubcategoryStr(event.summary, cat_delimiter),
                             subcat_delimiter)
          total_duration == TSub(end_dt, start_dt)
          split(s) == create_split_records(s, total_duration, allocations, 1,
                                           category, event.summary)
      IN  IF event.rrule.kind # "none"
          THEN IF event.rrule.ok
               THEN LET occurrences == between(event.rrule, start_dt, now)
                    IN  [raised |-> FALSE, warned |-> FALSE,
                         records |-> Flatten([k \in 1..Len(occurrences) |->
                                                 split(occurrences[k])])]
               ELSE [raised |-> FALSE, warned |-> TRUE, records |-> <<>>]
          ELSE [raised |-> FALSE, warned |-> FALSE, records |-> split(start_dt)]

\* ---------------------------------------------------------------- timezones
\* pytz.timezone(name): the zones used here, with their UTC offset in seconds
\* at the dates of the model (no DST change falls inside it).  Any other
\* name raises UnknownTimeZoneError.
KnownZones == {"UTC", "Asia/Tehran", "America/New_York"}

UtcOffset(tz) ==
    CASE tz = "UTC" -> 0
      [] tz = "Asia/Tehran" -> 12600
      [] tz = "America/New_York" -> 0 - 18000

\* wall clock of instant t in a zone with the given offset
LocalDay(t, off) == (t[1] + off) \div DaySeconds
LocalHour(t, off) == ((t[1] + off) % DaySeconds) \div 3600
LocalMinute(t, off) == ((t[1] + off) % 3600) \div 60

ALL_DAYS == <<"Monday", "Tuesday", "Wednesday", "Thursday", "Friday",
              "Saturday", "Sunday">>
DEFAULT_WEEKDAYS == {"Monday", "Tuesday", "Wednesday", "Thursday", "Friday"}

\* dt.day_name(): day 0 (2019-12-30) is a Monday
DayName(day) == ALL_DAYS[(day % 7) + 1]

\* tz.localize(datetime.combine(day, time.min)) and (day, time.max), as instants
LocalMidnight(day, off) == <<day * DaySeconds - off, 0>>
LocalDayEnd(day, off) == <<day * DaySeconds + DaySeconds - 1 - off, Micro - 1>>

\* --------------------------------------------------- process_ics_to_csv steps
column_order == <<"date", "day_of_week", "day_type", "start_time", "end_time",
                  "duration_minutes", "category", "subcategory_1",
                  "is_focus_session", "full_summary", "start_datetime",
                  "end_datetime">>

\* A file or table: exists = FALSE is no file at all; a file that exists
\* holds the header `columns` (<<>> when not yet written) and the rows.
Absent == [exists |-> FALSE, columns |-> <<>>, rows |-> <<>>]
Table(rows) == [exists |-> TRUE, columns |-> column_order, rows |-> rows]
Truncated == [exists |-> TRUE, columns |-> <<>>, rows |-> <<>>]
EmptyTable == Table(<<>>)

\* lines 167-177: the day-splitting loop for one record, from `cursor` on.
\* The boundary is the next midnight of the record's own offset (UTC).
\* Faulty variant of SplitDays (the loop body run once): C6 must notice it.
SplitDaysFirstOnly(event, cursor) ==
    LET end_of_day == <<((cursor[1] \div DaySeconds) + 1) * DaySeconds, 0>>
    IN  << [event EXCEPT !.start_datetime = cursor,
                         !.end_datetime = TMin(event.end_datetime, end_of_day)] >>

RECURSIVE SplitDays(_, _)
SplitDays(event, cursor) ==
    LET e == event.end_datetime
    IN  IF ~TLt(cursor, e) THEN <<>>
        ELSE LET end_of_day == <<((cursor[1] \div DaySeconds) + 1) * DaySeconds, 0>>
                 segment_end == TMin(e, end_of_day)
                 piece == IF TLt(cursor, segment_end)
                          THEN << [event EXCEPT !.start_datetime = cursor,
                                                !.end_datetime = segment_end] >>
                          ELSE <<>>
             IN  piece \o SplitDays(event, segment_end)

\* lines 159-177: records with e <= s are skipped, the others split by day
ExpandEvents(all_events) ==
    Flatten([i \in 1..Len(all_events) |->
                IF TLe(all_events[i].end_datetime, all_events[i].start_datetime)
                THEN <<>>
                ELSE SplitDays(all_events[i], all_events[i].start_datetime)])

\* line 203: the overlap test
Overlaps(r, ws, we) == TLt(r.start_datetime, we) /\ TLt(ws, r.end_datetime)

\* lines 213-214: clip to the window
\* Faulty variant of Clip (no clipping): C7 must notice it.
ClipNone(r, ws, we) == r

\* Faulty variant of Clip (the end one second short of the bound): C14 must
\* notice it.
ClipShort(r, ws, we) ==
    [r EXCEPT !.start_datetime = TMax(r.start_datetime, ws),
              !.end_datetime = TSub(TMin(r.end_datetime, we), <<1, 0>>)]

Clip(r, ws, we) ==
    [r EXCEPT !.start_datetime = TMax(r.start_datetime, ws),
              !.end_datetime = TMin(r.end_datetime, we)]

\* line 216: end - start; duration_minutes is this length divided by 60 s
Duration(r) == TSub(r.end_datetime, r.start_datetime)

\* line 217: duration_minutes > 0.1
LongEnough(r) == TLt(<<EpsilonSeconds, 0>>, Duration(r))

\* line 228: duration_minutes >= focus_minutes
IsLongSession(d, focus_minutes) == TLe(<<focus_minutes * 60, 0>>, d)

\* lines 226-227: category.lower() in [c.lower() for c in focus_categories]
IsFocusCategory(category, focus_categories) ==
    \E i \in 1..Len(focus_categories) : Lower(category) = Lower(focus_categories[i])

\* Faulty variant of IsFocusSession (either condition): C10 must notice it.
IsFocusEither(r, focus_categories, focus_minutes) ==
    IsFocusCategory(r.category, focus_categories)
    \/ IsLongSession(Duration(r), focus_minutes)

\* line 229
IsFocusSession(r, focus_categories, focus_minutes) ==
    IsFocusCategory(r.category, focus_categories)
    /\ IsLongSession(Duration(r), focus_minutes)

\* lines 216-231: the output row of one clipped record in the target zone.
\* duration_minutes holds the exact length <<s, u>>; start_time and end_time
\* hold <<hour, minute>> of the local wall clock.
FeatureRow(r, off, weekdays, focus_categories, focus_minutes) ==
    [date |-> LocalDay(r.start_datetime, off),
     day_of_week |-> DayName(LocalDay(r.start_datetime, off)),
     day_type |-> IF DayName(LocalDay(r.start_datetime, off)) \in weekdays
                  THEN "Weekday" ELSE "Weekend",
     start_time |-> <<LocalHour(r.start_datetime, off), LocalMinute(r.start_datetime, off)>>,
     end_time |-> <<LocalHour(r.end_datetime, off), LocalMinute(r.end_datetime, off)>>,
     duration_minutes |-> Duration(r),
     category |-> r.category,
     subcategory_1 |-> r.subcategory_1,
     is_focus_session |-> IsFocusSession(r, focus_categories, focus_minutes),
     full_summary |-> r.full_summary,
     start_datetime |-> r.start_datetime,
     end_datetime |-> r.end_datetime]

\* lines 203-231 on a frame of segments: the rows of the output table
OutputRows(segments, ws, we, off, weekdays, focus_categories, focus_minutes) ==
    LET inside == SelectSeq(segments, LAMBDA r : Overlaps(r, ws, we))
        clipped == [i \in 1..Len(inside) |-> Clip(inside[i], ws, we)]
        kept == SelectSeq(clipped, LongEnough)
    IN  [i \in 1..Len(kept) |->
            FeatureRow(kept[i], off, weekdays, focus_categories, focus_minutes)]

\* ------------------------------------------------------------------ inputs
\* Titles
TWork == <<"W","o","r","k",":"," ","D","e","e","p"," ","-"," ","R","e","v","i","e","w">>
TGym == <<"G","y","m">>
TLate == <<"W","O","R","K">>
TLearn == <<"L","e","a","r","n",":"," ","a"," ","-"," ","b"," ","-"," ","c">>
TTrip == <<"T","r","i","p",":"," ","-">>
TSync == <<"W","o","r","k",":","S","y","n","c">>

Colon == <<":">>
Dash == <<"-">>

Event(summary, dtstart, dtend, rrule) ==
    [summary |-> summary, dtstart |-> dtstart, dtend |-> dtend, rrule |-> rrule]

\* The VEVENTs documents are built from.  Well-formed ones: two subcategory
\* tokens across UTC midnight; no subcategory across UTC midnight; one event
\* crossing midnight of Asia/Tehran only (23:00-02:00 there); three tokens
\* over 100 s across UTC midnight (a third of it is no whole number of
\* microseconds); an all-day event; a daily and a yearly recurrence anchored
\* before the floor; an event of no length; one of 16 s that reaches 6 s
\* past midnight of Asia/Tehran.  Malformed ones: no DTSTART, no SUMMARY, no
\* DTEND, a rule that cannot be evaluated.
Catalogue ==
    << Event(TWork, DateTime(At(1, 22, 0, 0)), DateTime(At(2, 1, 0, 0)), NoRule),
       Event(TGym, Missing, DateTime(At(1, 8, 0, 0)), NoRule),
       Event(TGym, DateTime(At(1, 21, 30, 0)), DateTime(At(2, 1, 0, 0)), NoRule),
       Event(TLate, DateTime(At(1, 19, 30, 0)), DateTime(At(1, 22, 30, 0)), NoRule),
       Event(<<>>, DateTime(At(1, 10, 0, 0)), DateTime(At(1, 11, 0, 0)), NoRule),
       Event(TLearn, DateTime(At(1, 23, 59, 0)), DateTime(At(2, 0, 0, 40)), NoRule),
       Event(TTrip, AllDay(1), AllDay(2), NoRule),
       Event(TSync, DateTime(At(0, 9, 0, 0)), DateTime(At(0, 10, 30, 0)),
             Rule(TRUE, 1, 4)),
       Event(TGym, DateTime(At(2, 7, 0, 0)), DateTime(At(2, 8, 0, 0)),
             Rule(FALSE, 1, 3)),
       Event(TWork, DateTime(At(2, 8, 0, 0)), Missing, NoRule),
       Event(TGym, DateTime(At(2, 10, 0, 0)), DateTime(At(2, 10, 0, 0)), NoRule),
       Event(TLate, DateTime(At(0, 12, 0, 0)), DateTime(At(0, 13, 0, 0)),
             Rule(TRUE, 365, 4)),
       Event(TGym, DateTime(At(1, 20, 29, 50)), DateTime(At(1, 20, 30, 6)), NoRule) >>

WellFormed(event) ==
    /\ event.summary # <<>>
    /\ event.dtstart.kind # "none" /\ event.dtend.kind # "none"
    /\ event.rrule.kind # "none" => event.rrule.ok

\* Calendars: the events of up to MaxEvents catalogue entries, in catalogue
\* order (malformed entries stand before and after well-formed ones).
RECURSIVE Picks(_, _)
Picks(from, n) ==
    IF n = 0 THEN {<<>>}
    ELSE {<<>>} \cup UNION {{<<Catalogue[i]>> \o rest : rest \in Picks(i + 1, n - 1)} :
                               i \in from..Len(Catalogue)}

Calendars == Picks(1, MaxEvents)

\* What the runner finds at the input path: no file, an empty or
\* whitespace-only file, a file Calendar.from_ical rejects, or a calendar.
Doc(kind, events) == [kind |-> kind, events |-> events]

Documents ==
    {Doc("missing", <<>>), Doc("empty", <<>>), Doc("invalid", <<>>)}
    \cup {Doc("calendar", c) : c \in Calendars}

DEFAULT_FOCUS_CATEGORIES == <<<<"w","o","r","k">>, <<"l","e","a","r","n","i","n","g">>, <<"l","e","a","r","n">>, <<"p","r","o","j","e","c","t">>>>

DefaultFocus ==
    [focus_categories |-> DEFAULT_FOCUS_CATEGORIES, focus_minutes |-> DEFAULT_FOCUS_MINUTES]

FocusConfigs ==
    { DefaultFocus,
      [focus_categories |-> <<<<"G","Y","M">>, <<"W","o","r","k">>>>, focus_minutes |-> 60] }

Zones == {"UTC", "Asia/Tehran", "Mars/Phobos"}

\* timedelta per --period choice, in days (lines 280-284)
PeriodDays(period) ==
    CASE period = "1w" -> 7 [] period = "2w" -> 14 [] period = "1m" -> 30
      [] period = "3m" -> 90 [] period = "6m" -> 182 [] period = "1y" -> 365
      [] period = "2y" -> 730 [] period = "5y" -> 1825

\* The clock: datetime.now()
Now == At(MaxDay, 12, 0, 0)

\* ------------------------------------------------------------------- state
VARIABLES
    pc,          \* where the runner process is: "idle", "read", "collect",
                 \* "expand", "localize", "filter", "clip", "open", "write", "exited"
    doc,         \* the document at the input path
    args,        \* the runner's command line (argparse namespace)
    start_date,  \* window bounds handed to process_ics_to_csv (instants)
    end_date,
    all_events,  \* records of parse_event, in document order
    df,          \* the frame of segments
    target_tz,   \* the local target_tz of process_ics_to_csv; NONE while unbound
    pending,     \* the table to_csv has been asked to write (Absent: none)
    csv,         \* the file at OUTPUT_CSV_PATH
    exit_code,   \* the runner's exit status: Running, 0, or 1 (traceback)
    log,         \* the kinds of message the runner printed
    success,     \* what run_parser_script last returned to the dashboard
    runs,        \* Analyze clicks so far
    view,        \* the table the dashboard last loaded (Absent: none yet)
    event_index, \* day-splitting loop taken step by step: how many records
                 \* of all_events the for loop has taken up
    cursor       \* and the local `cursor` of its while loop

vars == <<pc, doc, args, start_date, end_date, all_events, df, target_tz,
          pending, csv, exit_code, log, success, runs, view, event_index, cursor>>

loop == <<event_index, cursor>>

dashboard == <<success, runs, view>>

\* dates: "explicit" (--start_date and --end_date given, as day numbers),
\* "bad" (given, but no YYYY-MM-DD text) or "period" (not given).
Args(tz, dates, sd, ed, period, focus) ==
    [timezone |-> tz, dates |-> dates, start_date |-> sd, end_date |-> ed,
     period |-> period,
     focus_categories |-> focus.focus_categories,
     focus_minutes |-> focus.focus_minutes,
     cat_delimiter |-> Colon, subcat_delimiter |-> Dash,
     weekdays |-> DEFAULT_WEEKDAYS]

\* Explicit date pairs: every pair in order, and one with start after end.
DatePairs ==
    {<<sd, ed>> \in (0..MaxDay) \X (0..MaxDay) : sd <= ed} \cup {<<MaxDay, 0>>}

\* Command lines: every zone with the default focus settings, and UTC with
\* the other focus settings.
ZoneFocus ==
    {<<tz, DefaultFocus>> : tz \in Zones}
    \cup {<<"UTC", f>> : f \in FocusConfigs}

CommandLines ==
    {Args(zf[1], "explicit", d[1], d[2], "1m", zf[2]) : zf \in ZoneFocus, d \in DatePairs}
    \cup {Args(tz, "period", 0, 0, "1w", DefaultFocus) : tz \in Zones}
    \cup {Args("UTC", "bad", 0, 0, "1m", DefaultFocus)}

\* exit_code while the process runs
Running == 0 - 1

Init ==
    /\ pc = "idle"
    /\ doc = Doc("missing", <<>>)
    /\ args = Args("UTC", "period", 0, 0, "1m", DefaultFocus)
    /\ start_date = <<0, 0>>
    /\ end_date = <<0, 0>>
    /\ all_events = <<>>
    /\ df = <<>>
    /\ target_tz = NONE
    /\ pending = Absent
    /\ csv = Absent
    /\ exit_code = Running
    /\ log = {}
    /\ success = FALSE
    /\ runs = 0
    /\ view = Absent
    /\ event_index = 0
    /\ cursor = <<0, 0>>

\* lines 271-294: the offset main localizes the window bounds with (UTC for
\* an unknown zone)
MainOffset(tz) == IF tz \in KnownZones THEN UtcOffset(tz) ELSE 0

\* lines 264-285: the first and last day of the window
StartDay(a) ==
    IF a.dates = "explicit" THEN a.start_date
    ELSE LocalDay(Now, MainOffset(a.timezone)) - PeriodDays(a.period)

EndDay(a) ==
    IF a.dates = "explicit" THEN a.end_date
    ELSE LocalDay(Now, MainOffset(a.timezone))

\* main(): parse the command line, compute the window, find the document and
\* call process_ics_to_csv (whose steps follow) or report and return.
Main(a, d) ==
    /\ args' = a
    /\ doc' = d
    /\ all_events' = <<>>
    /\ df' = <<>>
    /\ target_tz' = NONE
    /\ pending' = Absent
    /\ UNCHANGED csv
    /\ IF a.dates = "bad"
       THEN /\ log' = {"error: invalid date format"}
            /\ pc' = "exited"
            /\ exit_code' = 0
            /\ UNCHANGED <<start_date, end_date>>
       ELSE /\ start_date' = LocalMidnight(StartDay(a), MainOffset(a.timezone))
            /\ end_date' = LocalDayEnd(EndDay(a), MainOffset(a.timezone))
            /\ IF d.kind = "missing"
               THEN /\ log' = {"error: no ics file"}
                    /\ pc' = "exited"
                    /\ exit_code' = 0
               ELSE /\ log' = {}
                    /\ pc' = "read"
                    /\ exit_code' = Running

\* The runner started from a shell.
Invoke ==
    /\ UNCHANGED loop
    /\ pc = "idle"
    /\ \E a \in CommandLines, d \in Documents : Main(a, d)
    /\ UNCHANGED dashboard

\* ------------------------------------------------------- process_ics_to_csv
Return(msg) ==
    /\ pc' = "exited"
    /\ exit_code' = 0
    /\ log' = log \cup {msg}

\* an exception no handler catches: traceback, exit status 1
Crash(msg) ==
    /\ pc' = "exited"
    /\ exit_code' = 1
    /\ log' = log \cup {msg}

\* lines 125-137
ReadDocument ==
    /\ UNCHANGED loop
    /\ pc = "read"
    /\ IF doc.kind = "empty" THEN Return("warning: empty ics file")
       ELSE IF doc.kind = "invalid" THEN Return("error: failed to parse ics file")
       ELSE /\ pc' = "collect"
            /\ UNCHANGED <<exit_code, log>>
    /\ UNCHANGED <<doc, args, start_date, end_date, all_events, df, target_tz,
                   pending, csv, dashboard>>

\* lines 139-157
CollectEvents ==
    /\ UNCHANGED loop
    /\ pc = "collect"
    /\ LET cal == doc.events
           parsed == [i \in 1..Len(cal) |->
                         parse_event(cal[i], args.cat_delimiter,
                                     args.subcat_delimiter, Now)]
           records == Flatten([i \in 1..Len(cal) |-> parsed[i].records])
           warned == IF \E i \in 1..Len(cal) : parsed[i].warned
                     THEN {"warning: could not parse rrule"} ELSE {}
       IN  IF \E i \in 1..Len(cal) : parsed[i].raised
           THEN /\ Crash("traceback: AttributeError")
                /\ UNCHANGED <<all_events, pending>>
           ELSE /\ all_events' = records
                /\ exit_code' = exit_code
                /\ IF records = <<>>
                   THEN /\ pending' = EmptyTable
                        /\ pc' = "open"
                        /\ log' = log \cup warned \cup {"no parsable events"}
                   ELSE /\ pending' = pending
                        /\ pc' = "expand"
                        /\ log' = log \cup warned
    /\ UNCHANGED <<doc, args, start_date, end_date, df, target_tz, csv, dashboard>>

\* lines 159-185
ExpandDays ==
    /\ UNCHANGED loop
    /\ pc = "expand"
    /\ df' = ExpandEvents(all_events)
    /\ IF df' = <<>>
       THEN /\ pending' = EmptyTable
            /\ pc' = "open"
            /\ log' = log \cup {"no event segments"}
       ELSE /\ pending' = pending
            /\ pc' = "localize"
            /\ log' = log
    /\ UNCHANGED <<doc, args, start_date, end_date, all_events, target_tz, csv,
                   exit_code, dashboard>>

\* lines 187-198: tz_convert keeps every instant and changes the zone its
\* wall clock is read in; an unknown name leaves target_tz unassigned.
Localize ==
    /\ UNCHANGED loop
    /\ pc = "localize"
    /\ IF args.timezone \in KnownZones
       THEN /\ target_tz' = args.timezone
            /\ log' = log
       ELSE /\ target_tz' = NONE
            /\ log' = log \cup {"warning: unknown timezone"}
    /\ pc' = "filter"
    /\ UNCHANGED <<doc, args, start_date, end_date, all_events, df, pending, csv,
                   exit_code, dashboard>>

\* lines 200-210: reading the unassigned target_tz raises UnboundLocalError
FilterWindow ==
    /\ UNCHANGED loop
    /\ pc = "filter"
    /\ IF target_tz = NONE
       THEN /\ Crash("traceback: UnboundLocalError")
            /\ UNCHANGED <<df, pending>>
       ELSE /\ df' = SelectSeq(df, LAMBDA r : Overlaps(r, start_date, end_date))
            /\ exit_code' = exit_code
            /\ IF df' = <<>>
               THEN /\ pending' = EmptyTable
                    /\ pc' = "open"
                    /\ log' = log \cup {"no events in range"}
               ELSE /\ pending' = pending
                    /\ pc' = "clip"
                    /\ log' = log
    /\ UNCHANGED <<doc, args, start_date, end_date, all_events, target_tz, csv,
                   dashboard>>

\* lines 212-231
ClipAndTag ==
    /\ UNCHANGED loop
    /\ pc = "clip"
    /\ df' = OutputRows(df, start_date, end_date, UtcOffset(target_tz),
                        args.weekdays, args.focus_categories, args.focus_minutes)
    /\ pending' = Table(df')
    /\ pc' = "open"
    /\ UNCHANGED <<doc, args, start_date, end_date, all_events, target_tz, csv,
                   exit_code, log, dashboard>>

\* DataFrame.to_csv(csv_path) (lines 156, 184, 209, 233): open() truncates the
\* file, header and rows reach it as the write buffer is flushed, close()
\* flushes the rest.
OpenCsv ==
    /\ UNCHANGED loop
    /\ pc = "open"
    /\ csv' = Truncated
    /\ pc' = "write"
    /\ UNCHANGED <<doc, args, start_date, end_date, all_events, df, target_tz,
                   pending, exit_code, log, dashboard>>

FlushCsv ==
    /\ UNCHANGED loop
    /\ pc = "write"
    /\ \E k \in Len(csv.rows)..Len(pending.rows) :
          /\ csv' = Table(SubSeq(pending.rows, 1, k))
          /\ csv' # csv
    /\ UNCHANGED <<pc, doc, args, start_date, end_date, all_events, df, target_tz,
                   pending, exit_code, log, dashboard>>

CloseCsv ==
    /\ UNCHANGED loop
    /\ pc = "write"
    /\ csv' = pending
    /\ Return("saved")
    /\ UNCHANGED <<doc, args, start_date, end_date, all_events, df, target_tz,
                   pending, dashboard>>

Pipeline ==
    \/ ReadDocument
    \/ CollectEvents
    \/ ExpandDays
    \/ Localize
    \/ FilterWindow
    \/ ClipAndTag
    \/ OpenCsv
    \/ FlushCsv
    \/ CloseCsv

Next == Invoke \/ Pipeline

Spec == Init /\ [][Next]_vars

\* ---------------------------------------------------------------- dashboard
\* What a dashboard session uploads and asks for.  The Analyze handler always
\* stores the upload at the input path first, so the runner finds a file.
Uploads ==
    {Doc("empty", <<>>), Doc("invalid", <<>>), Doc("calendar", <<>>),
     Doc("calendar", <<Catalogue[1]>>), Doc("calendar", <<Catalogue[3]>>)}

Requests ==
    {Args(tz, "period", 0, 0, "1w", DefaultFocus) : tz \in {"Asia/Tehran", "Mars/Phobos"}}
    \cup {Args("Asia/Tehran", "explicit", sd, ed, "1m", DefaultFocus) :
             sd \in {1, 2}, ed \in {1, 2}}

\* app.py lines 100-145, up to the start of the runner: the upload replaces
\* the input document; a custom range with start after end is refused and
\* nothing runs; otherwise run_parser_script starts runner.py (main).
Analyze ==
    /\ UNCHANGED loop
    /\ pc = "idle"
    /\ runs < MaxRuns
    /\ runs' = runs + 1
    /\ success' = FALSE
    /\ UNCHANGED view
    /\ \E a \in Requests, d \in Uploads :
          IF a.dates = "explicit" /\ a.start_date > a.end_date
          THEN /\ doc' = d
               /\ UNCHANGED <<pc, args, start_date, end_date, all_events, df,
                              target_tz, pending, csv, exit_code, log>>
          ELSE Main(a, d)

\* app.py lines 52-61: subprocess.run(check=True) returns; a non-zero exit
\* status raises CalledProcessError and run_parser_script returns False.
Complete ==
    /\ UNCHANGED loop
    /\ pc = "exited"
    /\ runs > 0
    /\ success' = (exit_code = 0)
    /\ pc' = "idle"
    /\ UNCHANGED <<doc, args, start_date, end_date, all_events, df, target_tz,
                   pending, csv, exit_code, log, runs, view>>

\* app.py lines 164-165: a script run of the dashboard (any session, at any
\* time) loads the file if it exists.
LoadCsv ==
    /\ UNCHANGED loop
    /\ csv.exists
    /\ view' = csv
    /\ view' # view
    /\ UNCHANGED <<pc, doc, args, start_date, end_date, all_events, df, target_tz,
                   pending, csv, exit_code, log, success, runs>>

NextRuns == Analyze \/ Pipeline \/ Complete \/ LoadCsv

SpecRuns == Init /\ [][NextRuns]_vars

\* ------------------------------------------------------------------ titles
\* Runs of the runner over one event of an hour, for titles and delimiter
\* pairs of every shape the classifier distinguishes: no category delimiter;
\* one to seven subcategory tokens; upper case and surrounding blanks; the
\* category delimiter again inside the subcategory text; empty tokens from
\* leading, doubled and trailing subcategory delimiters; nothing left of the
\* category delimiter; delimiters of more than one character.
TPlan == <<"P","l","a","n",":"," ","a","-","b","-","c","-","d","-","e","-","f">>
TWeek == <<"W","e","e","k",":","m","o","-","t","u","-","w","e","-","t","h","-","f","r","-","s","a","-","s","u">>
TRead == <<"R","e","a","d",":"," ","A",":","B"," ","-"," ","c">>
THome == <<" "," ","H","o","m","e"," "," ">>
TGaps == <<"X",":"," ","-"," ","y"," ","-","-"," ","Z"," ","-"," ">>
TSolo == <<":"," ","s","o","l","o">>
TPair == <<"D","e","v"," ",":",":"," ","a","p","i"," ",","," ","d","b",",",","," ","u","i">>

Titles ==
    {TWork, TGym, TLate, TLearn, TTrip, TSync, TPlan, TWeek, TRead, THome, TGaps,
     TSolo, TPair}

\* <<category delimiter, subcategory delimiter>>
DelimiterPairs ==
    {<<Colon, Dash>>, <<Dash, Colon>>, <<<<":", ":">>, <<",">>>>}

TitleDocuments ==
    {Doc("calendar", <<Event(title, DateTime(At(1, 9, 0, 0)),
                             DateTime(At(1, 10, 0, 0)), NoRule)>>) :
        title \in Titles}

TitleCommandLines ==
    {[Args("UTC", "explicit", 1, 1, "1m", DefaultFocus)
         EXCEPT !.cat_delimiter = p[1], !.subcat_delimiter = p[2]] :
        p \in DelimiterPairs}

InvokeTitles ==
    /\ UNCHANGED loop
    /\ pc = "idle"
    /\ \E a \in TitleCommandLines, d \in TitleDocuments : Main(a, d)
    /\ UNCHANGED dashboard

NextTitles == InvokeTitles \/ Pipeline

SpecTitles == Init /\ [][NextTitles]_vars

\* ------------------------------------------------ the day-splitting loop
\* Lines 159-185 taken one loop iteration at a time (ExpandDays takes them
\* in one step).  pc = "expand" is the head of the for loop, pc = "split"
\* the head of the while loop; df collects expanded_events.

\* Faulty variant of end_of_day (midnight of the same day): C15 must notice it.
end_of_day_same(c) == <<(c[1] \div DaySeconds) * DaySeconds, 0>>

\* lines 168-169: midnight after the cursor
end_of_day(c) == <<((c[1] \div DaySeconds) + 1) * DaySeconds, 0>>

\* lines 160-166: the for loop takes up the next record; e <= s: continue
ForEvent ==
    /\ pc = "expand"
    /\ event_index < Len(all_events)
    /\ event_index' = event_index + 1
    /\ LET event == all_events[event_index + 1]
       IN  IF TLe(event.end_datetime, event.start_datetime)
           THEN /\ pc' = "expand"
                /\ cursor' = cursor
           ELSE /\ pc' = "split"
                /\ cursor' = event.start_datetime
    /\ UNCHANGED <<doc, args, start_date, end_date, all_events, df, target_tz,
                   pending, csv, exit_code, log, dashboard>>

\* lines 167-176: the test of the while loop and one pass of its body
WhileStep ==
    /\ pc = "split"
    /\ LET event == all_events[event_index]
           e == event.end_datetime
           segment_end == TMin(e, end_of_day(cursor))
       IN  IF TLt(cursor, e)
           THEN /\ df' = IF TLt(cursor, segment_end)
                         THEN Append(df, [event EXCEPT !.start_datetime = cursor,
                                                       !.end_datetime = segment_end])
                         ELSE df
                /\ cursor' = segment_end
                /\ pc' = "split"
           ELSE /\ pc' = "expand"
                /\ UNCHANGED <<df, cursor>>
    /\ UNCHANGED <<doc, args, start_date, end_date, all_events, target_tz,
                   pending, csv, exit_code, log, dashboard, event_index>>

\* lines 178-185: after the last record
EndFor ==
    /\ pc = "expand"
    /\ event_index = Len(all_events)
    /\ event_index' = 0
    /\ IF df = <<>>
       THEN /\ pending' = EmptyTable
            /\ pc' = "open"
            /\ log' = log \cup {"no event segments"}
       ELSE /\ pending' = pending
            /\ pc' = "localize"
            /\ log' = log
    /\ UNCHANGED <<doc, args, start_date, end_date, all_events, df, target_tz,
                   csv, exit_code, dashboard, cursor>>

\* An event over MaxDay midnights, and the calendars that end with it
Marathon ==
    Event(TGym, DateTime(At(0, 22, 0, 0)), DateTime(At(MaxDay, 2, 0, 0)), NoRule)

LoopDocuments ==
    {Doc("calendar", c) : c \in Calendars}
    \cup {Doc("calendar", c \o <<Marathon>>) : c \in {k \in Calendars : Len(k) < MaxEvents}}

LoopCommandLines ==
    {Args(tz, "explicit", 0, MaxDay, "1m", DefaultFocus) : tz \in {"UTC", "Asia/Tehran"}}

InvokeLoop ==
    /\ pc = "idle"
    /\ \E a \in LoopCommandLines, d \in LoopDocuments : Main(a, d)
    /\ UNCHANGED dashboard
    /\ UNCHANGED loop

NextLoop ==
    \/ InvokeLoop
    \/ ReadDocument
    \/ CollectEvents
    \/ ForEvent
    \/ WhileStep
    \/ EndFor
    \/ Localize
    \/ FilterWindow
    \/ ClipAndTag
    \/ OpenCsv
    \/ FlushCsv
    \/ CloseCsv

\* The interpreter keeps executing the loop once it has entered it: a loop
\* step that stays possible is taken.
LoopStep == ForEvent \/ WhileStep \/ EndFor

SpecLoop == Init /\ [][NextLoop]_vars /\ WF_vars(LoopStep)

\* ------------------------------------------------------------------ claims
\* The table a complete run over `events` writes for the current command
\* line when the wall clock is read at offset `off`.
TableOf(events, off) ==
    LET parsed == [i \in 1..Len(events) |->
                      parse_event(events[i], args.cat_delimiter,
                                  args.subcat_delimiter, Now).records]
    IN  Table(OutputRows(ExpandEvents(Flatten(parsed)), start_date, end_date, off,
                         args.weekdays, args.focus_categories, args.focus_minutes))

Finished == pc = "exited" /\ doc.kind = "calendar" /\ args.dates # "bad"

\* C1: with an unknown target timezone the run warns, falls back to UTC for
\* the localization and for both window bounds, and completes: it exits
\* normally and the written table holds every segment that overlaps the
\* window, read on the UTC wall clock.
C1_UnknownZoneFallsBackToUtc ==
    (Finished /\ args.timezone \notin KnownZones
              /\ \A i \in 1..Len(doc.events) : WellFormed(doc.events[i]))
    => /\ exit_code = 0
       /\ csv = TableOf(doc.events, 0)
       /\ (csv.rows # <<>> => "warning: unknown timezone" \in log)

\* C2: one malformed VEVENT (no summary, no DTSTART or DTEND, or a rule that
\* cannot be evaluated) among well-formed ones contributes nothing and does
\* not abort the run: the run exits normally and the written table is the
\* table of the well-formed events.
C2_MalformedEventIsContained ==
    (Finished /\ args.timezone \in KnownZones
              /\ Cardinality({i \in 1..Len(doc.events) : ~WellFormed(doc.events[i])}) = 1)
    => /\ exit_code = 0
       /\ csv = TableOf(SelectSeq(doc.events, WellFormed), UtcOffset(args.timezone))

\* The documents that end a run fatally.
Fatal(d) == d.kind \in {"missing", "empty", "invalid"}

\* C3: after any sequence of runs, a run that ended fatally (no document, or
\* an empty or unparsable one) and was reported to the dashboard as a success
\* has not left an earlier run's table in place: the destination holds no
\* table, or the table this run wrote.
C3_NoStaleTableAfterFatalRun ==
    (pc = "idle" /\ runs > 0 /\ success /\ Fatal(doc))
    => (~csv.exists \/ (pending.exists /\ csv = pending))

\* C4: a run on an empty calendar document (an empty or whitespace-only file,
\* or a calendar without events) ends without an exception and has written a
\* table with the full column set and no rows.
C4_EmptyDocumentWritesEmptyTable ==
    (pc = "exited" /\ args.dates # "bad"
       /\ (doc.kind = "empty" \/ (doc.kind = "calendar" /\ doc.events = <<>>)))
    => (exit_code = 0 /\ csv = EmptyTable)

\* start and end are on one calendar date of the zone at offset `off` (an end
\* at midnight sharp closes the day it ends)
SameLocalDate(r, off) ==
    LocalDay(r.start_datetime, off)
        = LocalDay(TSub(r.end_datetime, <<0, 1>>), off)

\* C5: for every target timezone, no row of the written table starts and
\* ends on different calendar dates of the target timezone.
C5_NoRowCrossesLocalMidnight ==
    (csv.exists /\ target_tz # NONE)
    => \A i \in 1..Len(csv.rows) : SameLocalDate(csv.rows[i], UtcOffset(target_tz))

\* The raw segments of one event: parse_event, then the day-splitting loop.
SegmentsOf(event) ==
    ExpandEvents(parse_event(event, args.cat_delimiter, args.subcat_delimiter,
                             Now).records)

\* The part of the frame `df` that came from the i-th event of the document,
\* right after the day-splitting loop.
SegmentsFrom(i) ==
    LET before == Len(Flatten([j \in 1..(i - 1) |-> SegmentsOf(doc.events[j])]))
    IN  SubSeq(df, before + 1, before + Len(SegmentsOf(doc.events[i])))

RECURSIVE SumDur(_)
SumDur(segs) ==
    IF segs = <<>> THEN <<0, 0>>
    ELSE TAdd(TSub(Head(segs).end_datetime, Head(segs).start_datetime),
              SumDur(Tail(segs)))

\* a non-recurring, well-formed event with end > start
Plain(event) ==
    /\ WellFormed(event)
    /\ event.rrule.kind = "none"
    /\ TLt(ToInstant(event.dtstart), ToInstant(event.dtend))

Length(event) == TSub(ToInstant(event.dtend), ToInstant(event.dtstart))

Tokens(event) ==
    Len(parse_subcategories(SubcategoryStr(event.summary, args.cat_delimiter),
                            args.subcat_delimiter))

\* a duration of less than a second either way, in microseconds
Micros(d) == d[1] * Micro + d[2]
Abs(n) == IF n < 0 THEN 0 - n ELSE n

\* C6 as claimed: for every non-recurring event with end > start, whatever
\* the number of subcategory tokens and of midnight crossings, the durations
\* of its raw segments sum to end - start.
C6_DurationPreservedExactly ==
    pc = "localize"
    => \A i \in 1..Len(doc.events) :
          Plain(doc.events[i])
          => SumDur(SegmentsFrom(i)) = Length(doc.events[i])

\* C6 as amended: the sum is end - start up to the rounding of each of the N
\* allocation slices to whole microseconds: it differs from end - start by
\* at most N/2 microseconds, and not at all when N divides the length in
\* microseconds.
C6_DurationPreservedUpToRounding ==
    pc = "localize"
    => \A i \in 1..Len(doc.events) :
          Plain(doc.events[i])
          => LET d == Length(doc.events[i])
                 n == Tokens(doc.events[i])
                 off == TSub(SumDur(SegmentsFrom(i)), d)
             IN  /\ off[1] \in {0 - 1, 0}
                 /\ 2 * Abs(Micros(off)) <= n
                 /\ ((d[1] % n) * Micro + d[2]) % n = 0 => off = <<0, 0>>

\* C6 witness: the frame holds the segments of a three-token event that
\* crosses midnight and whose length is no multiple of three microseconds.
C6_Witness ==
    /\ pc = "localize"
    /\ \E i \in 1..Len(doc.events) :
          /\ Plain(doc.events[i])
          /\ Tokens(doc.events[i]) = 3
          /\ Len(SegmentsFrom(i)) = 4
          /\ SumDur(SegmentsFrom(i)) # Length(doc.events[i])

\* The raw segments the window stage starts from (localization changes the
\* zone of every instant and no instant).
RawSegments == ExpandEvents(all_events)

\* the claimed retention rule and bounds of one localized segment
ClaimedStart(seg) == IF TLt(seg.start_datetime, start_date) THEN start_date
                     ELSE seg.start_datetime
ClaimedEnd(seg) == IF TLt(end_date, seg.end_datetime) THEN end_date
                   ELSE seg.end_datetime
ClaimedKept(seg) ==
    /\ TLt(seg.start_datetime, end_date)
    /\ TLt(start_date, seg.end_datetime)
    /\ TLt(<<EpsilonSeconds, 0>>, TSub(ClaimedEnd(seg), ClaimedStart(seg)))

Bounds(rows) == [i \in 1..Len(rows) |-> <<rows[i].start_datetime, rows[i].end_datetime>>]

\* C7: a localized segment yields an output row iff it starts before the
\* window end, ends after the window start and its clipped length exceeds
\* 0.1 minute; the row runs from max(start, window_start) to
\* min(end, window_end), so every row lies inside the window, has
\* start < end, and carries the clipped length as its duration.
C7_RetainAndClipToWindow ==
    pending.exists
    => LET kept == SelectSeq(RawSegments, ClaimedKept)
       IN  /\ Bounds(pending.rows)
                = [i \in 1..Len(kept) |-> <<ClaimedStart(kept[i]), ClaimedEnd(kept[i])>>]
           /\ \A i \in 1..Len(pending.rows) :
                 LET r == pending.rows[i]
                 IN  /\ TLe(start_date, r.start_datetime)
                     /\ TLt(r.start_datetime, r.end_datetime)
                     /\ TLe(r.end_datetime, end_date)
                     /\ r.duration_minutes = TSub(r.end_datetime, r.start_datetime)

\* C7 witness: a segment of 180 minutes that starts an hour before the window
\* start has been written as a row of 120 minutes starting at the window
\* start (23:00-02:00 local time against a window from 00:00).
C7_Witness ==
    /\ pc = "exited"
    /\ csv.exists
    /\ \E i \in 1..Len(csv.rows), j \in 1..Len(RawSegments) :
          /\ TSub(RawSegments[j].end_datetime, RawSegments[j].start_datetime) = <<10800, 0>>
          /\ TSub(start_date, RawSegments[j].start_datetime) = <<3600, 0>>
          /\ csv.rows[i].start_datetime = start_date
          /\ csv.rows[i].end_datetime = RawSegments[j].end_datetime
          /\ csv.rows[i].duration_minutes = <<7200, 0>>

\* The occurrences of a rule up to the horizon end, whatever the floor.
OccurrencesOf(event) ==
    SelectSeq(RuleStarts(event.rrule, ToInstant(event.dtstart), 0),
              LAMBDA t : TLe(t, Horizon(Now)))

\* the rows of the table that lie inside the occurrence of `event` starting at o
RowsOfOccurrence(event, o) ==
    {i \in 1..Len(csv.rows) :
        /\ csv.rows[i].full_summary = event.summary
        /\ TLe(o, csv.rows[i].start_datetime)
        /\ TLe(csv.rows[i].end_datetime, TAdd(o, Length(event)))}

\* C8: for a recurring event anchored before the analysis window, the
\* occurrences with rows in the output are exactly the rule's occurrences (up
\* to the horizon end) whose interval overlaps the window, and the run ends
\* without error.
C8_RecurringOccurrencesInWindow ==
    (Finished /\ args.timezone \in KnownZones
              /\ \A i \in 1..Len(doc.events) : WellFormed(doc.events[i]))
    => /\ exit_code = 0
       /\ csv.exists
       /\ \A i \in 1..Len(doc.events) :
             LET ev == doc.events[i]
             IN  (ev.rrule.kind # "none" /\ TLt(ToInstant(ev.dtstart), start_date))
                 => \A k \in 1..Len(OccurrencesOf(ev)) :
                       LET o == OccurrencesOf(ev)[k]
                       IN  (TLt(o, end_date) /\ TLt(start_date, TAdd(o, Length(ev))))
                           <=> RowsOfOccurrence(ev, o) # {}

\* C9: whatever the interleaving of a run writing the output and the
\* dashboard loading it, the dashboard has loaded a complete table: never a
\* file without its header row.
C9_ReaderSeesWholeTable ==
    view.exists => view.columns = column_order

\* the claimed focus rule, on the fields of one output row
InFocusSet(r) ==
    \E i \in 1..Len(args.focus_categories) :
        Lower(r.category) = Lower(args.focus_categories[i])

AtLeastThreshold(r) == ~TLt(r.duration_minutes, <<args.focus_minutes * 60, 0>>)

ClaimedFocus(r) == InFocusSet(r) /\ AtLeastThreshold(r)

\* C10: in every output row is_focus_session is true iff the lowercased
\* category is in the lowercased focus set and the row's own, clipped
\* duration is at least the focus threshold.
C10_FocusIsConjunction ==
    pending.exists
    => \A i \in 1..Len(pending.rows) :
          LET r == pending.rows[i]
          IN  /\ r.is_focus_session = ClaimedFocus(r)
              /\ r.duration_minutes = TSub(r.end_datetime, r.start_datetime)

\* C10 witness: one written table holds a row for each of the four
\* combinations, the focus-category row below the threshold being a slice of
\* an occurrence that is itself longer than the threshold, and one focus row
\* lasting exactly the threshold.
C10_Witness ==
    /\ pc = "exited"
    /\ csv.exists
    /\ \E a, b, c, d \in 1..Len(csv.rows) :
          /\ InFocusSet(csv.rows[a]) /\ AtLeastThreshold(csv.rows[a])
          /\ csv.rows[a].is_focus_session
          /\ csv.rows[a].duration_minutes = <<args.focus_minutes * 60, 0>>
          /\ InFocusSet(csv.rows[b]) /\ ~AtLeastThreshold(csv.rows[b])
          /\ ~csv.rows[b].is_focus_session
          /\ csv.rows[b].full_summary = csv.rows[a].full_summary
          /\ ~InFocusSet(csv.rows[c]) /\ AtLeastThreshold(csv.rows[c])
          /\ ~csv.rows[c].is_focus_session
          /\ ~InFocusSet(csv.rows[d]) /\ ~AtLeastThreshold(csv.rows[d])
          /\ ~csv.rows[d].is_focus_session

\* The steps of process_ics_to_csv
InPipeline ==
    pc \in {"read", "collect", "expand", "localize", "filter", "clip", "open", "write"}

\* C11: a command line with an explicit date pair whose start is after its
\* end is rejected before process_ics_to_csv executes: the runner is never
\* inside the pipeline with such a pair, and no output file is written for it.
C11_InvertedRangeRejectedByRunner ==
    (args.dates = "explicit" /\ args.start_date > args.end_date)
    => (~InPipeline /\ csv = Absent)

\* The day-segments of one occurrence taken whole: the day-splitting loop on
\* the interval from DTSTART to DTEND.
DaySegments(event) ==
    LET whole == Record(ToInstant(event.dtstart), ToInstant(event.dtend),
                        Category(event.summary, args.cat_delimiter),
                        NoSubcategory, event.summary)
    IN  SplitDays(whole, whole.start_datetime)

\* The segments C12 describes: every day-segment divided into back-to-back
\* sub-segments in allocation order, each weight/100 of that day-segment.
ClaimedSubSegments(event) ==
    LET days == DaySegments(event)
        allocations == parse_subcategories(
                           SubcategoryStr(event.summary, args.cat_delimiter),
                           args.subcat_delimiter)
    IN  Flatten([k \in 1..Len(days) |->
                    create_split_records(days[k].start_datetime, Duration(days[k]),
                                         allocations, 1, days[k].category,
                                         event.summary)])

\* C12: for an occurrence that crosses one midnight and has 2 subcategory
\* tokens the pipeline emits 4 raw segments: each of the 2 day-segments
\* divided into 2 back-to-back sub-segments in allocation order, each lasting
\* weight/100 of that day-segment's duration.
C12_SplitAppliedPerDaySegment ==
    pc = "localize"
    => \A i \in 1..Len(doc.events) :
          (Plain(doc.events[i]) /\ Tokens(doc.events[i]) = 2
                                /\ Len(DaySegments(doc.events[i])) = 2)
          => /\ Len(SegmentsFrom(i)) = 4
             /\ SegmentsFrom(i) = ClaimedSubSegments(doc.events[i])

\* The classification C13 describes, read off its words.
ClaimedCategory(title, cd) ==
    IF Find(title, cd) = 0 THEN Lower(Strip(title))
    ELSE Lower(Strip(SubSeq(title, 1, Find(title, cd) - 1)))

ClaimedNames(title, cd, sd) ==
    IF Find(title, cd) = 0 THEN <<NoSubcategory>>
    ELSE LET right == SubSeq(title, Find(title, cd) + Len(cd), Len(title))
             tokens == SplitAll(right, sd)
             trimmed == [k \in 1..Len(tokens) |-> Lower(Strip(tokens[k]))]
             surviving == SelectSeq(trimmed, LAMBDA t : t # <<>>)
         IN  IF surviving = <<>> THEN <<NoSubcategory>> ELSE surviving

\* a + b of two floats, rounded as Python rounds it
FloatAdd(a, b) ==
    FloatRound(FloatCarry(<<a[1] + b[1], a[2] + b[2], a[3] + b[3]>>), 0, 1)

\* The weights of a list of allocations, and their sum taken left to right
Weights(allocations) ==
    [k \in 1..Len(allocations) |-> even_split_weight(allocations[k].parts)]

RECURSIVE FloatSum(_)
FloatSum(ws) ==
    IF Len(ws) = 1 THEN ws[1]
    ELSE FloatAdd(FloatSum(SubSeq(ws, 1, Len(ws) - 1)), ws[Len(ws)])

\* The allocations parse_event computed for the one event of the document
AllocationsOfTitle ==
    parse_subcategories(SubcategoryStr(doc.events[1].summary, args.cat_delimiter),
                        args.subcat_delimiter)

\* C13, the classification: the records of the event carry the category and
\* the subcategory names the claim describes (trimmed lowercased title and
\* "no subcategory" without a category delimiter; else the text left of the
\* first category delimiter, and the surviving tokens right of it), and each
\* of the N allocations has the weight 100/N.
ClassifiedAsClaimed ==
    LET title == doc.events[1].summary
        names == ClaimedNames(title, args.cat_delimiter, args.subcat_delimiter)
    IN  /\ Len(all_events) = Len(names)
        /\ Len(AllocationsOfTitle) = Len(names)
        /\ \A k \in 1..Len(names) :
              /\ all_events[k].category = ClaimedCategory(title, args.cat_delimiter)
              /\ all_events[k].subcategory_1 = names[k]
              /\ AllocationsOfTitle[k].name = names[k]
              /\ Weights(AllocationsOfTitle)[k] = even_split_weight(Len(names))

\* C13: for every title and delimiter pair the classifier returns the
\* category and the allocations described above, and the weights of one
\* title sum to 100.
C13_TitleClassifierWeightsSumTo100 ==
    (pc = "expand" /\ Len(doc.events) = 1)
    => /\ ClassifiedAsClaimed
       /\ FloatSum(Weights(AllocationsOfTitle)) = Hundred

\* the window has start <= end
OrderedWindow == TLe(start_date, end_date)

\* One more pass of lines 203-217 over a segment
ClippedAgain(r) == Clip(r, start_date, end_date)
RetainedAgain(r) == Overlaps(r, start_date, end_date) /\ LongEnough(ClippedAgain(r))

\* C14: window clipping is idempotent.  For a window with start <= end,
\* clipping an already-clipped segment against the same window returns the
\* identical segment, and a segment retained by the overlap test and the
\* duration filter is retained on a second pass.  Checked on every raw
\* segment of the frame before the window stage, and on every row the window
\* stage produced.
C14_ClipIsIdempotent ==
    OrderedWindow
    => /\ pc \in {"filter", "clip"}
          => \A i \in 1..Len(df) :
                LET once == ClippedAgain(df[i])
                IN  /\ ClippedAgain(once) = once
                    /\ RetainedAgain(df[i]) => RetainedAgain(once)
       /\ (pc \in {"open", "write", "exited"} /\ pending.exists)
          => \A i \in 1..Len(pending.rows) :
                /\ ClippedAgain(pending.rows[i]) = pending.rows[i]
                /\ RetainedAgain(pending.rows[i])

\* C14 witness: a table has been computed that holds a row cut at the start
\* of the window, out of a segment that began before it, and a row that is a
\* whole segment.
C14_Witness ==
    /\ OrderedWindow
    /\ pc = "open"
    /\ pending.exists
    /\ \E i \in 1..Len(pending.rows), k \in 1..Len(RawSegments) :
          /\ pending.rows[i].start_datetime = start_date
          /\ TLt(RawSegments[k].start_datetime, start_date)
          /\ RawSegments[k].end_datetime = pending.rows[i].end_datetime
    /\ \E i \in 1..Len(pending.rows), k \in 1..Len(RawSegments) :
          /\ pending.rows[i].start_datetime = RawSegments[k].start_datetime
          /\ pending.rows[i].end_datetime = RawSegments[k].end_datetime

\* The record the while loop is working on
CurrentRecord == all_events[event_index]

\* One pass of the while body: the cursor strictly advances to min(end, next
\* midnight) and the segment from the old cursor to the new one is emitted.
CursorAdvances ==
    (pc = "split" /\ pc' = "split")
    => /\ TLt(cursor, cursor')
       /\ cursor' = TMin(CurrentRecord.end_datetime,
                         <<((cursor[1] \div DaySeconds) + 1) * DaySeconds, 0>>)
       /\ Len(df') = Len(df) + 1
       /\ df'[Len(df')].start_datetime = cursor
       /\ df'[Len(df')].end_datetime = cursor'

\* The while loop is left exactly when the cursor is the record's end.
StopsAtEnd ==
    (pc = "split" /\ pc' = "expand") => cursor = CurrentRecord.end_datetime

\* A record with end <= start is passed over: nothing is emitted for it.
SkipsEmptyRecord ==
    (pc = "expand" /\ event_index' = event_index + 1
                   /\ TLe(all_events[event_index'].end_datetime,
                          all_events[event_index'].start_datetime))
    => (df' = df /\ pc' = "expand")

\* While the loop runs, the cursor is inside the record and every segment
\* emitted so far has a positive duration.
LoopInvariant ==
    pc \in {"expand", "split"}
    => /\ pc = "split" => /\ TLt(CurrentRecord.start_datetime, CurrentRecord.end_datetime)
                          /\ TLe(CurrentRecord.start_datetime, cursor)
                          /\ TLe(cursor, CurrentRecord.end_datetime)
       /\ \A k \in 1..Len(df) : TLt(df[k].start_datetime, df[k].end_datetime)

\* C15: the day-splitting loop terminates for every record with end > start.
\* On each iteration the cursor strictly advances to min(end, next midnight);
\* the loop stops exactly when the cursor equals the record's end; no
\* zero-duration segment is emitted; records with end <= start produce no
\* segment; the while loop of every record, and the whole loop, come to an end.
C15_DaySplitLoopTerminates ==
    /\ [][CursorAdvances /\ StopsAtEnd /\ SkipsEmptyRecord]_vars
    /\ []LoopInvariant
    /\ (pc = "split") ~> (pc = "expand")
    /\ (pc = "expand") ~> (pc \in {"localize", "open"})

\* C15 witness: the loop has finished over records that include one of no
\* length and one that crosses MaxDay midnights, whose MaxDay + 1 segments,
\* cut at every midnight, end the frame.
C15_Witness ==
    /\ pc = "localize"
    /\ event_index = 0
    /\ \E i \in 1..Len(all_events) :
          all_events[i].end_datetime = all_events[i].start_datetime
    /\ Len(df) >= MaxDay + 1
    /\ LET last == all_events[Len(all_events)]
       IN  /\ TSub(last.end_datetime, last.start_datetime)
                 = <<((MaxDay - 1) * 24 + 4) * 3600, 0>>
           /\ df[Len(df) - MaxDay].start_datetime = last.start_datetime
           /\ \A k \in (Len(df) - MaxDay + 1)..Len(df) :
                 /\ df[k].start_datetime = df[k - 1].end_datetime
                 /\ df[k].start_datetime[1] % DaySeconds = 0
           /\ df[Len(df)].end_datetime = last.end_datetime

====
